---- MODULE Spec2Model ----
(***************************************************************************)
(* EnterMedSchool Glossary: the Aho-Corasick automaton and the TermMatcher *)
(* policy layer of src/content/term-matcher.js.                            *)
(*                                                                         *)
(* A JavaScript string is a sequence of UTF-16 code units; a code unit is  *)
(* a TLA+ string naming it ("a", " ", "U+0130", ...).                      *)
(***************************************************************************)
EXTENDS Integers, Sequences, FiniteSets, TLC

VARIABLES
    nodes,               \* AhoCorasick: the trie, an arena of AhoCorasickNode; nodes[Root] is this.root
    built,               \* AhoCorasick._built
    added,               \* history: the arguments of the addPattern calls so far
    index,               \* TermMatcher.index
    initialized,         \* TermMatcher._initialized
    userLevel,           \* TermMatcher.userLevel
    enableBetaFeatures,  \* TermMatcher.enableBetaFeatures
    text,                \* the text buffer handed to search / findTerms
    ret,                 \* the last call and its outcome: [op, value, threw]
    prev,                \* AhoCorasick used on its own: the call before the last one
    storage,             \* chrome.storage.local: the values stored under STORAGE_KEYS
    calls                \* the calls of the storage module so far, in flight or completed

vars == <<nodes, built, added, index, initialized, userLevel, enableBetaFeatures, text, ret,
          prev, storage, calls>>

-----------------------------------------------------------------------------
(* Bounds of the model *)

MaxTextLen == 3
MaxPatLen == 2
MaxPatterns == 2

-----------------------------------------------------------------------------
(* Code units and strings *)

IDot == "U+0130"      \* LATIN CAPITAL LETTER I WITH DOT ABOVE
CombDot == "U+0307"   \* COMBINING DOT ABOVE
EAcute == "U+00E9"    \* LATIN SMALL LETTER E WITH ACUTE
HighSur == "U+D83D"   \* high surrogate of U+1F600
LowSur == "U+DE00"    \* low surrogate of U+1F600
Undefined == "undefined"   \* what str[i] gives outside the string

AsciiLower == {"a", "s", "i", "h"}
AsciiUpper == {"A", "S", "I", "H"}
AsciiLetters == AsciiLower \cup AsciiUpper
AsciiDigits == {"1"}

RECURSIVE SeqsUpTo(_, _)
SeqsUpTo(S, n) ==
    IF n = 0 THEN {<<>>}
    ELSE LET shorter == SeqsUpTo(S, n - 1)
         IN  shorter \cup {Append(s, c) : s \in {t \in shorter : Len(t) = n - 1}, c \in S}

\* String.prototype.toLowerCase on one code unit: U+0130 lowercases to two.
LowerUnit(c) ==
    CASE c = "A" -> <<"a">>
      [] c = "S" -> <<"s">>
      [] c = "H" -> <<"h">>
      [] c = "I" -> <<"i">>
      [] c = IDot -> <<"i", CombDot>>
      [] OTHER -> <<c>>

RECURSIVE ToLowerCase(_)
ToLowerCase(str) ==
    IF str = <<>> THEN <<>> ELSE LowerUnit(Head(str)) \o ToLowerCase(Tail(str))

\* String.prototype.toUpperCase on one code unit
UpperUnit(c) ==
    CASE c = "a" -> "A"
      [] c = "s" -> "S"
      [] c = "h" -> "H"
      [] c = "i" -> "I"
      [] OTHER -> c

ToUpperCase(str) == [k \in 1..Len(str) |-> UpperUnit(str[k])]

WhiteSpace == {" "}

\* String.prototype.trim: the string without its leading and trailing white space
RECURSIVE Trim(_)
Trim(str) ==
    IF str = <<>> THEN <<>>
    ELSE IF Head(str) \in WhiteSpace THEN Trim(Tail(str))
    ELSE IF str[Len(str)] \in WhiteSpace THEN Trim(SubSeq(str, 1, Len(str) - 1))
    ELSE str

\* The string iterator (for ... of): one element per code point, a surrogate
\* pair being one element of two code units.
RECURSIVE CodePoints(_)
CodePoints(str) ==
    IF str = <<>> THEN <<>>
    ELSE IF Len(str) >= 2 /\ str[1] = HighSur /\ str[2] = LowSur
         THEN <<SubSeq(str, 1, 2)>> \o CodePoints(SubSeq(str, 3, Len(str)))
         ELSE <<SubSeq(str, 1, 1)>> \o CodePoints(Tail(str))

\* str[i], 0-based
CharAt(str, i) == IF 0 <= i /\ i < Len(str) THEN str[i + 1] ELSE Undefined

\* str.slice(start, end) for 0 <= start <= end
Slice(str, start, end) ==
    LET e == IF end < Len(str) THEN end ELSE Len(str)
    IN  IF start >= e THEN <<>> ELSE SubSeq(str, start + 1, e)

-----------------------------------------------------------------------------
(* AhoCorasick *)

Nil == 0      \* null
Root == 1     \* this.root

AhoCorasickNode == [children |-> <<>>, fail |-> Nil, output |-> <<>>, depth |-> 0]

\* new AhoCorasick()
NewAutomaton == [nodes |-> <<AhoCorasickNode>>, built |-> FALSE]

\* Map.has / Map.get on a node's children, a Map kept in insertion order
Has(children, char) == \E k \in 1..Len(children) : children[k].char = char
Get(children, char) ==
    children[CHOOSE k \in 1..Len(children) : children[k].char = char].node

RECURSIVE InsertChars(_, _, _)
InsertChars(ns, node, chars) ==
    IF chars = <<>> THEN [nodes |-> ns, node |-> node]
    ELSE LET char == Head(chars)
         IN  IF Has(ns[node].children, char)
             THEN InsertChars(ns, Get(ns[node].children, char), Tail(chars))
             ELSE LET newId == Len(ns) + 1
                      newNode == [AhoCorasickNode EXCEPT !.depth = ns[node].depth + 1]
                      linked == [ns EXCEPT ![node].children =
                                    Append(@, [char |-> char, node |-> newId])]
                  IN  InsertChars(Append(linked, newNode), newId, Tail(chars))

\* addPattern(pattern) on the automaton ac = [nodes, built]
AddPatternTo(ac, pattern) ==
    IF pattern = <<>> THEN ac
    ELSE LET lowerPattern == ToLowerCase(pattern)
             r == InsertChars(ac.nodes, Root, CodePoints(lowerPattern))
         IN  [nodes |-> [r.nodes EXCEPT ![r.node].output = Append(@, lowerPattern)],
              built |-> FALSE]

RECURSIVE AddPatternsTo(_, _)
AddPatternsTo(ac, patterns) ==
    IF patterns = <<>> THEN ac
    ELSE AddPatternsTo(AddPatternTo(ac, Head(patterns)), Tail(patterns))

\* while (fail && !fail.children.has(char)) fail = fail.fail
\* one test of the fail-link instead of the loop: the root when it has no such child
FollowFailOnce(ns, fail, char) ==
    IF fail /= Nil /\ ~Has(ns[fail].children, char) THEN Nil ELSE fail

RECURSIVE FollowFail(_, _, _)
FollowFail(ns, fail, char) ==
    IF fail /= Nil /\ ~Has(ns[fail].children, char)
    THEN FollowFail(ns, ns[fail].fail, char)
    ELSE fail

\* the body of build's inner loop over current.children, from the k-th child on
RECURSIVE BuildChildren(_, _, _, _)
BuildChildren(ns, queue, current, k) ==
    IF k > Len(ns[current].children) THEN [nodes |-> ns, queue |-> queue]
    ELSE LET char == ns[current].children[k].char
             child == ns[current].children[k].node
             fail == FollowFail(ns, ns[current].fail, char)
             childFail == IF fail /= Nil THEN Get(ns[fail].children, char) ELSE Root
             ns2 == [ns EXCEPT ![child].fail = childFail,
                               ![child].output = @ \o ns[childFail].output]
         IN  BuildChildren(ns2, Append(queue, child), current, k + 1)

RECURSIVE BuildLoop(_, _)
BuildLoop(ns, queue) ==
    IF queue = <<>> THEN ns
    ELSE LET r == BuildChildren(ns, Tail(queue), Head(queue), 1)
         IN  BuildLoop(r.nodes, r.queue)

\* the depth-1 nodes: fail-link to the root, queued in insertion order
InitDepth1(ns) ==
    LET kids == ns[Root].children
        isKid(n) == \E k \in 1..Len(kids) : kids[k].node = n
    IN  [nodes |-> [n \in 1..Len(ns) |->
                      IF isKid(n) THEN [ns[n] EXCEPT !.fail = Root] ELSE ns[n]],
         queue |-> [k \in 1..Len(kids) |-> kids[k].node]]

BuildOfUnguarded(ac) ==
    LET d1 == InitDepth1(ac.nodes)
    IN  [nodes |-> BuildLoop(d1.nodes, d1.queue), built |-> TRUE]

BuildOf(ac) ==
    IF ac.built THEN ac
    ELSE LET d1 == InitDepth1(ac.nodes)
         IN  [nodes |-> BuildLoop(d1.nodes, d1.queue), built |-> TRUE]

Records(i, output) ==
    [k \in 1..Len(output) |->
        [start |-> i - Len(output[k]) + 1, end |-> i + 1, pattern |-> output[k]]]

RECURSIVE SearchLoop(_, _, _, _, _)
SearchLoop(ns, lowerText, i, node, results) ==
    IF i >= Len(lowerText) THEN results
    ELSE LET char == <<lowerText[i + 1]>>
             n1 == FollowFail(ns, node, char)
         IN  IF n1 = Nil
             THEN SearchLoop(ns, lowerText, i + 1, Root, results)
             ELSE LET n2 == Get(ns[n1].children, char)
                  IN  SearchLoop(ns, lowerText, i + 1, n2,
                                 results \o Records(i, ns[n2].output))

SearchOfNoBuild(ac, txt) ==
    [ac |-> ac, results |-> SearchLoop(ac.nodes, ToLowerCase(txt), 0, Root, <<>>)]

SearchOfRebuilding(ac, txt) ==
    LET b == BuildOf([ac EXCEPT !.built = FALSE])
    IN  [ac |-> b, results |-> SearchLoop(b.nodes, ToLowerCase(txt), 0, Root, <<>>)]

\* search(txt): the automaton after the call (it may build) and the records
SearchOf(ac, txt) ==
    LET b == BuildOf(ac)
    IN  [ac |-> b, results |-> SearchLoop(b.nodes, ToLowerCase(txt), 0, Root, <<>>)]

------------------------------------------------------------------------
(* The Term Index, as the matcher reads it: three Maps, each a sequence of *)
(* [key, value] entries in insertion order.                                *)

MapHas(map, key) == \E k \in 1..Len(map) : map[k].key = key
MapGet(map, key) == map[CHOOSE k \in 1..Len(map) : map[k].key = key].value

NoPatternMeta == [present |-> FALSE, isCaseSensitive |-> FALSE, originalCase |-> <<>>]
NoTermMeta == [present |-> FALSE, level |-> ""]

\* index.getAllPatterns()
GetAllPatterns(idx) == [k \in 1..Len(idx.patterns) |-> idx.patterns[k].key]

\* index.getTermIdsForPattern(pattern): patterns.get(pattern.toLowerCase()) || []
GetTermIdsForPattern(idx, pattern) ==
    IF MapHas(idx.patterns, ToLowerCase(pattern))
    THEN MapGet(idx.patterns, ToLowerCase(pattern))
    ELSE <<>>

\* index.getPatternMetadata(pattern): patternMetadata.get(pattern.toLowerCase()) || null
GetPatternMetadata(idx, pattern) ==
    IF MapHas(idx.patternMetadata, ToLowerCase(pattern))
    THEN MapGet(idx.patternMetadata, ToLowerCase(pattern))
    ELSE NoPatternMeta

\* index.terms?.get(termId)
TermsGet(idx, termId) ==
    IF idx.hasTerms /\ MapHas(idx.terms, termId) THEN MapGet(idx.terms, termId) ELSE NoTermMeta

-----------------------------------------------------------------------------
(* TermMatcher *)

EXCLUDED_PATTERNS == {<<"a", "n">>, <<"a", "s">>, <<"b", "e">>, <<"h", "e">>, <<"i", "s">>}

BETA_TERM_LEVELS == {"formula", "lab-value", "physiological"}

\* a table in which 'all' has the tier of 'medschool'
LEVEL_HIERARCHY_TwoTiers(level) == IF level = "premed" THEN 0 ELSE 1

\* LEVEL_HIERARCHY[level] ?? 1
LEVEL_HIERARCHY(level) ==
    CASE level = "premed" -> 0
      [] level = "medschool" -> 1
      [] level = "all" -> 2
      [] OTHER -> 1

\* EXCLUDED_PATTERNS.includes(pattern)
IsExcludedNever(pattern) == FALSE
IsExcluded(pattern) == pattern \in EXCLUDED_PATTERNS

EffectiveLevelAsGiven(level) == level
\* userLevel === 'all' ? 'medschool' : userLevel
EffectiveLevel(level) == IF level = "all" THEN "medschool" ELSE level

KeepTermAllKeepsEveryTier(idx, level, beta, termId) ==
    LET termMeta == TermsGet(idx, termId)
        termLevel == IF termMeta.level = "" THEN "medschool" ELSE termMeta.level
    IN  IF ~termMeta.present THEN TRUE
        ELSE IF termLevel \in BETA_TERM_LEVELS /\ ~beta THEN FALSE
        ELSE level = "all" \/ LEVEL_HIERARCHY(termLevel) = LEVEL_HIERARCHY(level)

KeepTermDropsUnknown(idx, level, beta, termId) ==
    LET termMeta == TermsGet(idx, termId)
        termLevel == IF termMeta.level = "" THEN "medschool" ELSE termMeta.level
    IN  IF ~termMeta.present THEN FALSE
        ELSE IF termLevel \in BETA_TERM_LEVELS /\ ~beta THEN FALSE
        ELSE LEVEL_HIERARCHY(termLevel) = LEVEL_HIERARCHY(EffectiveLevel(level))

KeepTermIgnoringFlag(idx, level, beta, termId) ==
    LET termMeta == TermsGet(idx, termId)
        termLevel == IF termMeta.level = "" THEN "medschool" ELSE termMeta.level
    IN  IF ~termMeta.present THEN TRUE
        ELSE LEVEL_HIERARCHY(termLevel) = LEVEL_HIERARCHY(EffectiveLevel(level))

\* the predicate of _filterByLevel's filter
KeepTerm(idx, level, beta, termId) ==
    LET termMeta == TermsGet(idx, termId)
        termLevel == IF termMeta.level = "" THEN "medschool" ELSE termMeta.level
    IN  IF ~termMeta.present THEN TRUE
        ELSE IF termLevel \in BETA_TERM_LEVELS /\ ~beta THEN FALSE
        ELSE LEVEL_HIERARCHY(termLevel) = LEVEL_HIERARCHY(EffectiveLevel(level))

FilterByLevel(idx, level, beta, termIds) ==
    SelectSeq(termIds, LAMBDA termId : KeepTerm(idx, level, beta, termId))

IsValidCaseMatchIgnoringCase(idx, txt, start, end, pattern) ==
    LET patternMeta == GetPatternMetadata(idx, pattern)
    IN  IF ~patternMeta.present THEN TRUE
        ELSE IF ~patternMeta.isCaseSensitive THEN TRUE
        ELSE IF patternMeta.originalCase = <<>> THEN TRUE
        ELSE ToLowerCase(Slice(txt, start, end)) = ToLowerCase(patternMeta.originalCase)

IsValidCaseMatch(idx, txt, start, end, pattern) ==
    LET patternMeta == GetPatternMetadata(idx, pattern)
    IN  IF ~patternMeta.present THEN TRUE
        ELSE IF ~patternMeta.isCaseSensitive THEN TRUE
        ELSE IF patternMeta.originalCase = <<>> THEN TRUE
        ELSE Slice(txt, start, end) = patternMeta.originalCase

IsWordCharLettersOnly(char) == char \in AsciiLetters \cup {Undefined}
IsWordCharUnicode(char) ==
    char \in AsciiLetters \cup AsciiDigits \cup {"_", EAcute, IDot, Undefined}
\* /[a-zA-Z0-9]/.test(char); test(undefined) tests the string "undefined"
IsWordChar(char) == char \in AsciiLetters \cup AsciiDigits \cup {Undefined}

IsWordBoundaryMatch(txt, start, end) ==
    /\ start > 0 => ~IsWordChar(CharAt(txt, start - 1))
    /\ end < Len(txt) => ~IsWordChar(CharAt(txt, end))

\* no tie-break on the length: matches of one start stay in the order of the hits
SortsBeforeStartOnly(a, b) == a.start < b.start

SortsBeforeShorterFirst(a, b) ==
    IF a.start /= b.start THEN a.start < b.start
    ELSE (a.end - a.start) - (b.end - b.start) < 0

\* the comparator of _removeOverlaps: a sorts strictly before b
SortsBefore(a, b) ==
    IF a.start /= b.start THEN a.start < b.start
    ELSE (b.end - b.start) - (a.end - a.start) < 0

\* Array.prototype.sort is stable: x goes behind every element it does not precede
RECURSIVE InsertSorted(_, _)
InsertSorted(sorted, x) ==
    IF sorted = <<>> THEN <<x>>
    ELSE IF SortsBefore(x, Head(sorted)) THEN <<x>> \o sorted
    ELSE <<Head(sorted)>> \o InsertSorted(Tail(sorted), x)

RECURSIVE SortMatches(_, _)
SortMatches(matches, sorted) ==
    IF matches = <<>> THEN sorted
    ELSE SortMatches(Tail(matches), InsertSorted(sorted, Head(matches)))

\* the scan ends at the first match that overlaps the last kept one
RECURSIVE KeepLoopUntilOverlap(_, _, _)
KeepLoopUntilOverlap(sorted, lastEnd, result) ==
    IF sorted = <<>> THEN result
    ELSE IF Head(sorted).start < lastEnd THEN result
    ELSE KeepLoopUntilOverlap(Tail(sorted), Head(sorted).end, Append(result, Head(sorted)))

RECURSIVE KeepLoop(_, _, _)
KeepLoop(sorted, lastEnd, result) ==
    IF sorted = <<>> THEN result
    ELSE IF Head(sorted).start < lastEnd THEN KeepLoop(Tail(sorted), lastEnd, result)
    ELSE KeepLoop(Tail(sorted), Head(sorted).end, Append(result, Head(sorted)))

RemoveOverlapsSortOnly(matches) ==
    IF matches = <<>> THEN <<>> ELSE SortMatches(matches, <<>>)

RemoveOverlaps(matches) ==
    IF matches = <<>> THEN <<>>
    ELSE KeepLoop(SortMatches(matches, <<>>), -1, <<>>)

\* the loop of findTerms over rawMatches: the candidates that pass every filter
RECURSIVE ValidMatches(_, _, _, _, _)
ValidMatches(idx, level, beta, txt, rawMatches) ==
    IF rawMatches = <<>> THEN <<>>
    ELSE LET m == Head(rawMatches)
             rest == ValidMatches(idx, level, beta, txt, Tail(rawMatches))
             termIds == GetTermIdsForPattern(idx, m.pattern)
             filteredTermIds == FilterByLevel(idx, level, beta, termIds)
         IN  IF IsExcluded(m.pattern) THEN rest
             ELSE IF ~IsWordBoundaryMatch(txt, m.start, m.end) THEN rest
             ELSE IF ~IsValidCaseMatch(idx, txt, m.start, m.end, m.pattern) THEN rest
             ELSE IF Len(termIds) > 0 /\ Len(filteredTermIds) > 0
                  THEN <<[start |-> m.start, end |-> m.end, pattern |-> m.pattern,
                          termIds |-> filteredTermIds]>> \o rest
                  ELSE rest

\* the output format of findTerms
ToOutput(matches) ==
    [k \in 1..Len(matches) |->
        [start |-> matches[k].start, end |-> matches[k].end, termIds |-> matches[k].termIds]]

\* new TermMatcher(index): a fresh automaton, not initialized
NewMatcher == [ac |-> [nodes |-> <<AhoCorasickNode>>, built |-> FALSE], initialized |-> FALSE]

\* initialize() on the matcher m = [ac, initialized] with index idx
InitializeOfUnguarded(m, idx) ==
    [ac |-> BuildOf(AddPatternsTo(m.ac, GetAllPatterns(idx))), initialized |-> TRUE]

InitializeOf(m, idx) ==
    IF m.initialized THEN m
    ELSE [ac |-> BuildOf(AddPatternsTo(m.ac, GetAllPatterns(idx))), initialized |-> TRUE]

\* overlap resolution on the raw hits, the filters after it
FindTermsOfOverlapsFirst(m, idx, level, beta, txt) ==
    LET m1 == InitializeOf(m, idx)
    IN  IF txt = <<>> THEN [m |-> m1, value |-> <<>>]
        ELSE LET s == SearchOf(m1.ac, txt)
             IN  [m |-> [ac |-> s.ac, initialized |-> TRUE],
                  value |-> IF s.results = <<>> THEN <<>>
                            ELSE ToOutput(ValidMatches(idx, level, beta, txt,
                                                       RemoveOverlaps(s.results)))]

\* findTerms(txt): the matcher after the call and the matches returned
FindTermsOf(m, idx, level, beta, txt) ==
    LET m1 == InitializeOf(m, idx)
    IN  IF txt = <<>> THEN [m |-> m1, value |-> <<>>]
        ELSE LET s == SearchOf(m1.ac, txt)
                 validMatches == ValidMatches(idx, level, beta, txt, s.results)
             IN  [m |-> [ac |-> s.ac, initialized |-> TRUE],
                  value |-> IF s.results = <<>> THEN <<>>
                            ELSE ToOutput(RemoveOverlaps(validMatches))]

\* getTermIdsAtPosition's scan of the matches findTerms returned: the term
\* identifiers of the first match that contains position, or null
GetTermIdsInclusiveEnd(matches, position) ==
    LET hits == {k \in 1..Len(matches) :
                    matches[k].start <= position /\ position <= matches[k].end}
    IN  IF hits = {} THEN [isNull |-> TRUE, termIds |-> <<>>]
        ELSE [isNull |-> FALSE,
              termIds |-> matches[CHOOSE k \in hits : \A j \in hits : k <= j].termIds]

GetTermIdsAmong(matches, position) ==
    LET hits == {k \in 1..Len(matches) :
                    matches[k].start <= position /\ position < matches[k].end}
    IN  IF hits = {} THEN [isNull |-> TRUE, termIds |-> <<>>]
        ELSE [isNull |-> FALSE,
              termIds |-> matches[CHOOSE k \in hits : \A j \in hits : k <= j].termIds]

-----------------------------------------------------------------------------
(* Inputs of the model *)

\* the outcome of a call: it returned value, or it threw the error named
Return(op, value) == [op |-> op, value |-> value, threw |-> ""]
Throw(op, error) == [op |-> op, value |-> <<>>, threw |-> error]

None == Return("none", <<>>)

AcAlphabet == {"a", "s"}
AcPatterns ==
    SeqsUpTo(AcAlphabet, MaxPatLen) \cup {<<"A">>, <<HighSur, LowSur>>}
AcScenarioTexts ==
    { <<"A">>, <<"S", "A">>, <<"a", "S", "a">>, <<IDot>>, <<IDot, "a">>,
      <<HighSur, LowSur>>, <<"a", HighSur, LowSur>> }
AcTexts == SeqsUpTo(AcAlphabet, MaxTextLen) \cup AcScenarioTexts

\* term-identifier -> term metadata, as loadTerm stores it
TermsTable ==
    << [key |-> "aortic-stenosis", value |-> [present |-> TRUE, level |-> "medschool"]],
       [key |-> "t-med",           value |-> [present |-> TRUE, level |-> "medschool"]],
       [key |-> "t-premed",        value |-> [present |-> TRUE, level |-> "premed"]],
       [key |-> "t-all",           value |-> [present |-> TRUE, level |-> "all"]],
       [key |-> "t-nolevel",       value |-> [present |-> TRUE, level |-> ""]],
       [key |-> "t-beta",          value |-> [present |-> TRUE, level |-> "formula"]],
       [key |-> "t-unknown",       value |-> [present |-> TRUE, level |-> "expert"]] >>

Meta(cs, orig) == [present |-> TRUE, isCaseSensitive |-> cs, originalCase |-> orig]

\* the patterns an index may hold: key, term identifiers, pattern metadata
Catalog ==
    << [key |-> <<"a", "s">>, ids |-> <<"aortic-stenosis">>, meta |-> Meta(FALSE, <<>>)],
       [key |-> <<"a">>, ids |-> <<"t-med", "t-premed">>, meta |-> NoPatternMeta],
       [key |-> <<"a">>, ids |-> <<"t-nometa", "t-premed">>, meta |-> Meta(TRUE, <<"A">>)],
       [key |-> <<"a", " ", "a">>, ids |-> <<"t-med", "t-premed">>, meta |-> NoPatternMeta],
       [key |-> <<"a", " ", "s">>, ids |-> <<"t-premed", "t-nolevel">>, meta |-> NoPatternMeta],
       [key |-> <<"s">>, ids |-> <<"t-all">>, meta |-> Meta(TRUE, <<>>)],
       [key |-> <<"s", " ", "a">>, ids |-> <<"t-beta", "t-unknown">>, meta |-> Meta(FALSE, <<>>)] >>

\* the index holding the catalog entries S, loaded in catalog order
MakeIndex(S, hasTerms) ==
    LET chosen == SelectSeq([k \in 1..Len(Catalog) |-> k], LAMBDA k : k \in S)
        withMeta == SelectSeq(chosen, LAMBDA k : Catalog[k].meta.present)
    IN  [patterns |-> [k \in 1..Len(chosen) |->
                          [key |-> Catalog[chosen[k]].key, value |-> Catalog[chosen[k]].ids]],
         patternMetadata |-> [k \in 1..Len(withMeta) |->
                          [key |-> Catalog[withMeta[k]].key, value |-> Catalog[withMeta[k]].meta]],
         terms |-> IF hasTerms THEN TermsTable ELSE <<>>,
         hasTerms |-> hasTerms]

MaxIndexPatterns == 2

\* an index without a term-metadata lookup (index.terms undefined) holds one pattern
TmIndexes ==
    { MakeIndex(S, hasTerms) :
        S \in { T \in SUBSET (1..Len(Catalog)) :
                  /\ Cardinality(T) <= MaxIndexPatterns
                  /\ \A j, k \in T : Catalog[j].key = Catalog[k].key => j = k },
        hasTerms \in BOOLEAN } \ { MakeIndex(S, FALSE) : S \in {T \in SUBSET (1..Len(Catalog)) : Cardinality(T) /= 1} }

TmAlphabet == {"a", "s", " "}
TmScenarioTexts ==
    { <<"A">>, <<"S", "A">>, <<"A", " ", "s">>,
      <<"a", "_">>, <<"_", "a">>, <<"a", EAcute>>, <<EAcute, "a">>,
      <<"a", "1">>, <<"1", "a">>,
      <<"a", " ", "a", " ", "a">>, <<"a", " ", "s", " ", "a">>,
      <<IDot, " ", "a">> }
TmTexts == SeqsUpTo(TmAlphabet, MaxTextLen) \cup TmScenarioTexts

LevelInputs == {"premed", "medschool", "all", "expert", ""}

NoIndex == MakeIndex({}, FALSE)

-----------------------------------------------------------------------------
(* The storage module over chrome.storage.local *)

ViewTermIds == {"t1", "t2"}
ViewCategories == {"anatomy"}
Hostnames == {"a.com", "b.com"}

DEFAULT_SETTINGS == [enabled |-> TRUE, disabledSites |-> <<>>, enabledSites |-> <<>>]

\* the default of getStats; a key an object does not hold reads as 0 in
\* (stats.termViews[termId] || 0)
NoStats ==
    [totalViews |-> 0, termViews |-> [t \in ViewTermIds |-> 0],
     categoryViews |-> [c \in ViewCategories |-> 0], lastViewed |-> ""]

Stored(value) == [present |-> TRUE, value |-> value]
NotStored(value) == [present |-> FALSE, value |-> value]

\* chrome.storage.local with nothing stored
EmptyStorage ==
    [ems_stats |-> NotStored(NoStats), ems_enabled |-> NotStored(TRUE),
     ems_disabled_sites |-> NotStored(<<>>), ems_enabled_sites |-> NotStored(<<>>)]

\* get(key, defaultValue): result[key] !== undefined ? result[key] : defaultValue
StorageGet(store, key, defaultValue) ==
    IF store[key].present THEN store[key].value ELSE defaultValue

\* set(key, value)
StorageSet(store, key, value) == [store EXCEPT ![key] = Stored(value)]

\* getSettings()
GetSettings(store) ==
    [enabled |-> StorageGet(store, "ems_enabled", DEFAULT_SETTINGS.enabled),
     disabledSites |-> StorageGet(store, "ems_disabled_sites", DEFAULT_SETTINGS.disabledSites),
     enabledSites |-> StorageGet(store, "ems_enabled_sites", DEFAULT_SETTINGS.enabledSites)]

\* getStats()
GetStats(store) == StorageGet(store, "ems_stats", NoStats)

\* Array.prototype.includes
Includes(array, x) == \E k \in 1..Len(array) : array[k] = x

\* Array.prototype.indexOf, counted from 0; -1 when x is not in the array
IndexOf(array, x) ==
    IF Includes(array, x)
    THEN (CHOOSE k \in 1..Len(array) :
              array[k] = x /\ \A j \in 1..(k - 1) : array[j] /= x) - 1
    ELSE -1

\* isSiteEnabled(hostname), on the settings it has read
IsSiteEnabledOf(settings, hostname) ==
    IF ~settings.enabled THEN FALSE
    ELSE IF Includes(settings.disabledSites, hostname) THEN FALSE
    ELSE IF Len(settings.enabledSites) > 0 THEN Includes(settings.enabledSites, hostname)
    ELSE TRUE

\* toggleSite(hostname), on the settings it has read: the list it writes and
\* the value it returns
ToggleSiteOf(settings, hostname) ==
    LET k == IndexOf(settings.disabledSites, hostname)
    IN  [disabledSites |->
             IF k > -1
             THEN SubSeq(settings.disabledSites, 1, k)
                      \o SubSeq(settings.disabledSites, k + 2, Len(settings.disabledSites))
             ELSE Append(settings.disabledSites, hostname),
         result |-> k > -1]

\* recordView(termId, category), on the stats it has read: the stats it writes
RecordViewOf(stats, termId, category) ==
    [totalViews |-> stats.totalViews + 1,
     termViews |-> [stats.termViews EXCEPT ![termId] = @ + 1],
     categoryViews |-> [stats.categoryViews EXCEPT ![category] = @ + 1],
     lastViewed |-> termId]


-----------------------------------------------------------------------------
(* The service worker's index builder: normalizePattern, isPatternExcluded, *)
(* shouldBeCaseSensitive, extractPatternsFromTerm, loadTerm                 *)

\* normalizePattern(pattern): pattern.toLowerCase().trim()
NormalizePattern(pattern) == Trim(ToLowerCase(pattern))

\* isPatternExcluded(pattern)
IsPatternExcluded(pattern) == Trim(ToLowerCase(pattern)) \in EXCLUDED_PATTERNS

commonWords ==
    { <<"t", "h", "e">>, <<"a", "n", "d">>, <<"b", "u", "t">>, <<"f", "o", "r">>,
      <<"n", "o", "t">>, <<"y", "o", "u">>, <<"a", "l", "l">>, <<"c", "a", "n">>,
      <<"h", "a", "d">>, <<"h", "e", "r">>, <<"w", "a", "s">>, <<"o", "n", "e">>,
      <<"o", "u", "r">>, <<"o", "u", "t">>, <<"a", "r", "e">>, <<"h", "a", "s">>,
      <<"h", "i", "s">>, <<"h", "o", "w">>, <<"i", "t", "s">>, <<"m", "a", "y">>,
      <<"n", "e", "w">>, <<"n", "o", "w">>, <<"o", "l", "d">>, <<"s", "e", "e">>,
      <<"w", "a", "y">>, <<"w", "h", "o">>, <<"b", "o", "y">>, <<"d", "i", "d">>,
      <<"g", "e", "t">>, <<"l", "e", "t">>, <<"p", "u", "t">>, <<"s", "a", "y">>,
      <<"s", "h", "e">>, <<"t", "o", "o">>, <<"u", "s", "e">>, <<"r", "e", "d">>,
      <<"f", "l", "u">>, <<"a", "r", "m">>, <<"l", "e", "g">>, <<"e", "a", "r">>,
      <<"e", "y", "e">>, <<"j", "a", "w">>, <<"l", "i", "p">>, <<"r", "i", "b">>,
      <<"g", "u", "m">>, <<"f", "a", "t">>, <<"g", "u", "t">>, <<"h", "i", "p">>,
      <<"t", "o", "e">>, <<"w", "e", "t">>, <<"d", "r", "y">>, <<"h", "o", "t">>,
      <<"r", "a", "w">>, <<"o", "l", "d">> }

CaseResult(cs, orig) == [isCaseSensitive |-> cs, originalCase |-> orig]
\* { isCaseSensitive: false, originalCase: null }
NotCaseSensitive == CaseResult(FALSE, <<>>)

\* /[A-Z]/.test(str)
HasAsciiUpper(str) == \E k \in 1..Len(str) : str[k] \in AsciiUpper
\* /^[a-z]+$/.test(str)
OnlyAsciiLower(str) == str /= <<>> /\ \A k \in 1..Len(str) : str[k] \in AsciiLower

\* original[0] === original[0].toUpperCase() &&
\* original.slice(1) === original.slice(1).toLowerCase(), on a non-empty string
IsSentenceCase(str) ==
    /\ <<str[1]>> = ToUpperCase(<<str[1]>>)
    /\ Tail(str) = ToLowerCase(Tail(str))

\* the abbreviation test is made after the two tests of the casing
ShouldBeCaseSensitiveAbbrLast(pattern, original, isFromAbbr) ==
    LET normalized == Trim(ToLowerCase(pattern))
        originalStripped == Trim(original)
    IN  IF normalized \in EXCLUDED_PATTERNS THEN NotCaseSensitive
        ELSE IF Len(normalized) <= 4 /\ originalStripped = ToUpperCase(originalStripped)
        THEN CaseResult(TRUE, originalStripped)
        ELSE IF /\ Len(normalized) <= 6
                /\ HasAsciiUpper(originalStripped)
                /\ ~IsSentenceCase(originalStripped)
        THEN CaseResult(TRUE, originalStripped)
        ELSE IF isFromAbbr /\ Len(normalized) <= 6
        THEN CaseResult(TRUE, ToUpperCase(originalStripped))
        ELSE IF /\ Len(normalized) >= 2
                /\ Len(normalized) <= 4
                /\ OnlyAsciiLower(normalized)
                /\ normalized \notin commonWords
        THEN CaseResult(TRUE, ToUpperCase(normalized))
        ELSE NotCaseSensitive

\* shouldBeCaseSensitive(pattern, original, isFromAbbr)
ShouldBeCaseSensitive(pattern, original, isFromAbbr) ==
    LET normalized == Trim(ToLowerCase(pattern))
        originalStripped == Trim(original)
    IN  IF normalized \in EXCLUDED_PATTERNS THEN NotCaseSensitive
        ELSE IF isFromAbbr /\ Len(normalized) <= 6
        THEN CaseResult(TRUE, ToUpperCase(originalStripped))
        ELSE IF Len(normalized) <= 4 /\ originalStripped = ToUpperCase(originalStripped)
        THEN CaseResult(TRUE, originalStripped)
        ELSE IF /\ Len(normalized) <= 6
                /\ HasAsciiUpper(originalStripped)
                /\ ~IsSentenceCase(originalStripped)
        THEN CaseResult(TRUE, originalStripped)
        ELSE IF /\ Len(normalized) >= 2
                /\ Len(normalized) <= 4
                /\ OnlyAsciiLower(normalized)
                /\ normalized \notin commonWords
        THEN CaseResult(TRUE, ToUpperCase(normalized))
        ELSE NotCaseSensitive

\* Map.prototype.set: the value of an existing key is replaced in place
MapPut(map, key, value) ==
    IF MapHas(map, key)
    THEN [k \in 1..Len(map) |-> IF map[k].key = key THEN [key |-> key, value |-> value]
                                                     ELSE map[k]]
    ELSE Append(map, [key |-> key, value |-> value])

\* one field of the term: every string of it that normalizes to a pattern not
\* yet seen, not excluded and, for patterns and abbr, of 2 characters or more
RECURSIVE ExtractField(_, _, _, _)
ExtractField(strings, minLength, isFromAbbr, patterns) ==
    IF strings = <<>> THEN patterns
    ELSE LET normalized == NormalizePattern(Head(strings))
             seen == {patterns[k].pattern : k \in 1..Len(patterns)}
             accepted == /\ normalized /= <<>>
                         /\ Len(normalized) >= minLength
                         /\ normalized \notin seen
                         /\ ~IsPatternExcluded(normalized)
             entry == [pattern |-> normalized, original |-> Trim(Head(strings)),
                       isFromAbbr |-> isFromAbbr]
         IN  ExtractField(Tail(strings), minLength, isFromAbbr,
                          IF accepted THEN Append(patterns, entry) ELSE patterns)

\* extractPatternsFromTerm(termData): patterns, names, aliases, abbr in this order
ExtractPatternsFromTerm(termData) ==
    LET explicit == ExtractField(termData.patterns, 2, FALSE, <<>>)
        names == ExtractField(termData.names, 0, FALSE, explicit)
        aliases == ExtractField(termData.aliases, 0, FALSE, names)
    IN  ExtractField(termData.abbr, 2, TRUE, aliases)

\* str.replace(/\s+/g, '-')
RECURSIVE Slug(_)
Slug(str) ==
    IF str = <<>> THEN <<>>
    ELSE IF Head(str) \in WhiteSpace
    THEN IF Len(str) >= 2 /\ str[2] \in WhiteSpace THEN Slug(Tail(str))
                                                    ELSE <<"-">> \o Slug(Tail(str))
    ELSE <<Head(str)>> \o Slug(Tail(str))

\* termData.id || termData.names?.[0]?.toLowerCase().replace(/\s+/g, '-')
TermIdOf(termData) ==
    IF termData.id /= <<>> THEN termData.id
    ELSE IF termData.names /= <<>> THEN Slug(ToLowerCase(termData.names[1]))
    ELSE <<>>

\* the loop of loadTerm over the extracted patterns
RECURSIVE StorePatterns(_, _, _)
StorePatterns(idx, termId, patterns) ==
    IF patterns = <<>> THEN idx
    ELSE LET pattern == Head(patterns).pattern
             termIds == IF MapHas(idx.patterns, pattern) THEN MapGet(idx.patterns, pattern)
                                                         ELSE <<>>
             pushed == IF \E k \in 1..Len(termIds) : termIds[k] = termId
                       THEN termIds ELSE Append(termIds, termId)
             case == ShouldBeCaseSensitive(pattern, Head(patterns).original,
                                           Head(patterns).isFromAbbr)
             metadata == IF MapHas(idx.patternMetadata, pattern) THEN idx.patternMetadata
                         ELSE MapPut(idx.patternMetadata, pattern,
                                     Meta(case.isCaseSensitive, case.originalCase))
         IN  StorePatterns([idx EXCEPT !.patterns = MapPut(idx.patterns, pattern, pushed),
                                       !.patternMetadata = metadata],
                           termId, Tail(patterns))

\* loadTerm(index, termData)
LoadTermOf(idx, termData) ==
    LET termId == TermIdOf(termData)
        termMeta == [present |-> TRUE,
                     level |-> IF termData.level /= "" THEN termData.level ELSE "medschool"]
    IN  IF termId = <<>> THEN idx
        ELSE StorePatterns([idx EXCEPT !.terms = MapPut(idx.terms, termId, termMeta)],
                           termId, ExtractPatternsFromTerm(termData))

\* new GlossaryIndex()
NewGlossaryIndex == [patterns |-> <<>>, patternMetadata |-> <<>>, terms |-> <<>>,
                     hasTerms |-> TRUE]

-----------------------------------------------------------------------------
(* The automaton used on its own: addPattern, build, search *)

InitAC ==
    /\ nodes = <<AhoCorasickNode>>
    /\ built = FALSE
    /\ added = <<>>
    /\ index = NoIndex
    /\ initialized = FALSE
    /\ userLevel = "medschool"
    /\ enableBetaFeatures = FALSE
    /\ text \in AcTexts
    /\ ret = None
    /\ prev = "none"
    /\ storage = EmptyStorage
    /\ calls = <<>>

AddPattern(pattern) ==
    /\ LET ac == AddPatternTo([nodes |-> nodes, built |-> built], pattern)
       IN  /\ nodes' = ac.nodes
           /\ built' = ac.built
    /\ added' = Append(added, pattern)
    /\ ret' = Return("addPattern", <<>>)
    /\ prev' = ret.op
    /\ UNCHANGED <<index, initialized, userLevel, enableBetaFeatures, text, storage, calls>>

Build ==
    /\ LET ac == BuildOf([nodes |-> nodes, built |-> built])
       IN  /\ nodes' = ac.nodes
           /\ built' = ac.built
    /\ ret' = Return("build", <<>>)
    /\ prev' = ret.op
    /\ UNCHANGED <<added, index, initialized, userLevel, enableBetaFeatures, text, storage, calls>>

Search(txt) ==
    /\ LET r == SearchOf([nodes |-> nodes, built |-> built], txt)
       IN  /\ nodes' = r.ac.nodes
           /\ built' = r.ac.built
           /\ ret' = Return("search", r.results)
    /\ text' = txt
    /\ prev' = ret.op
    /\ UNCHANGED <<added, index, initialized, userLevel, enableBetaFeatures, storage, calls>>

NextAC ==
    \/ \E pattern \in AcPatterns : Len(added) < MaxPatterns /\ AddPattern(pattern)
    \/ Build
    \/ Search(text)

SpecAC == InitAC /\ [][NextAC]_vars

-----------------------------------------------------------------------------
(* The automaton over sequences of calls: patterns added between builds and  *)
(* searches, several texts, arguments that are not strings                   *)

MaxAdds == 3

LifePatterns == {<<>>, <<"a">>, <<"s", "a">>, <<"a", "a", "s">>}
LifePatternLists == { <<>>, << <<"a">>, <<"s", "a">> >>, << <<>>, <<"s">> >> }
LifeTexts == {<<>>, <<"s", "a">>, <<"S", "A", "a">>}

\* JavaScript values that are not strings, by name
NonStrings == {"null", "undefined", "42"}
\* !value
Falsy(value) == value \in {"null", "undefined"}
\* the name of the call fn(value)
CallOn(fn, value) == fn \o "(" \o value \o ")"

InitACL ==
    /\ nodes = NewAutomaton.nodes
    /\ built = NewAutomaton.built
    /\ added = <<>>
    /\ index = NoIndex
    /\ initialized = FALSE
    /\ userLevel = "medschool"
    /\ enableBetaFeatures = FALSE
    /\ text = <<>>
    /\ ret = None
    /\ prev = "none"
    /\ storage = EmptyStorage
    /\ calls = <<>>

\* addPattern(value), value not a string: a falsy value returns at once, any
\* other value has no toLowerCase method and the call throws a TypeError
AddPatternNonString(value) ==
    /\ ret' = IF Falsy(value) THEN Return(CallOn("addPattern", value), <<>>)
                              ELSE Throw(CallOn("addPattern", value), "TypeError")
    /\ prev' = ret.op
    /\ UNCHANGED <<nodes, built, added, index, initialized, userLevel, enableBetaFeatures, text,
                 storage, calls>>

AddPatterns(patterns) ==
    /\ LET ac == AddPatternsTo([nodes |-> nodes, built |-> built], patterns)
       IN  /\ nodes' = ac.nodes
           /\ built' = ac.built
    /\ added' = added \o patterns
    /\ ret' = Return("addPatterns", <<>>)
    /\ prev' = ret.op
    /\ UNCHANGED <<index, initialized, userLevel, enableBetaFeatures, text, storage, calls>>

NextACL ==
    \/ \E pattern \in LifePatterns : Len(added) < MaxAdds /\ AddPattern(pattern)
    \/ \E value \in NonStrings : AddPatternNonString(value)
    \/ \E patterns \in LifePatternLists :
          Len(added) + Len(patterns) <= MaxAdds /\ AddPatterns(patterns)
    \/ Build
    \/ \E txt \in LifeTexts : Search(txt)

SpecACL == InitACL /\ [][NextACL]_vars

-----------------------------------------------------------------------------
(* The matcher over a Term Index: setUserLevel, setBetaFeatures, initialize, *)
(* findTerms                                                                *)

InitTM ==
    /\ nodes = <<AhoCorasickNode>>
    /\ built = FALSE
    /\ added = <<>>
    /\ index \in TmIndexes
    /\ initialized = FALSE
    /\ userLevel = "medschool"
    /\ enableBetaFeatures = FALSE
    /\ text \in TmTexts
    /\ ret = None
    /\ prev = "none"
    /\ storage = EmptyStorage
    /\ calls = <<>>

SetUserLevel(level) ==
    /\ userLevel' = IF level = "" THEN "medschool" ELSE level
    /\ ret' = None
    /\ UNCHANGED <<nodes, built, added, index, initialized, enableBetaFeatures, text, prev,
                 storage, calls>>

SetBetaFeatures(enabled) ==
    /\ enableBetaFeatures' = enabled
    /\ ret' = None
    /\ UNCHANGED <<nodes, built, added, index, initialized, userLevel, text, prev, storage, calls>>

Initialize ==
    /\ LET m == InitializeOf([ac |-> [nodes |-> nodes, built |-> built],
                              initialized |-> initialized], index)
       IN  /\ nodes' = m.ac.nodes
           /\ built' = m.ac.built
           /\ initialized' = m.initialized
    /\ added' = IF initialized THEN added ELSE added \o GetAllPatterns(index)
    /\ ret' = None
    /\ UNCHANGED <<index, userLevel, enableBetaFeatures, text, prev, storage, calls>>

FindTerms(txt) ==
    /\ LET r == FindTermsOf([ac |-> [nodes |-> nodes, built |-> built],
                             initialized |-> initialized],
                            index, userLevel, enableBetaFeatures, txt)
       IN  /\ nodes' = r.m.ac.nodes
           /\ built' = r.m.ac.built
           /\ initialized' = r.m.initialized
           /\ ret' = Return("findTerms", r.value)
    /\ added' = IF initialized THEN added ELSE added \o GetAllPatterns(index)
    /\ text' = txt
    /\ UNCHANGED <<index, userLevel, enableBetaFeatures, prev, storage, calls>>

NextTM ==
    \/ \E level \in LevelInputs : SetUserLevel(level)
    \/ \E enabled \in BOOLEAN : SetBetaFeatures(enabled)
    \/ Initialize
    \/ FindTerms(text)

SpecTM == InitTM /\ [][NextTM]_vars

-----------------------------------------------------------------------------
(* The matcher over sequences of calls: several texts, a text that is not a  *)
(* string, getTermIdsAtPosition, and a Term Index that its loader changes    *)

\* an index whose pattern starts with a character that is no letter or digit
SymbolIndex ==
    [patterns |-> << [key |-> <<"_", "a">>, value |-> <<"t-med", "t-premed">>] >>,
     patternMetadata |-> <<>>, terms |-> TermsTable, hasTerms |-> TRUE]
\* an index with two keys that differ in their casing only
CasedKeysIndex ==
    [patterns |-> << [key |-> <<"a">>, value |-> <<"t-med">>],
                     [key |-> <<"A">>, value |-> <<"t-premed">>],
                     [key |-> <<"a", " ", "a">>, value |-> <<"t-med">>] >>,
     patternMetadata |-> <<>>, terms |-> TermsTable, hasTerms |-> TRUE]

LifeIndexes ==
    { MakeIndex(S, TRUE) : S \in {{}, {1}, {2}, {2, 4}} } \cup {SymbolIndex, CasedKeysIndex}
LifeTmTexts ==
    {<<>>, <<"A">>, <<"s">>, <<"a", " ", "a", " ", "a">>, <<IDot, "_", "a">>}

FindTermsNonStringOfUnguarded(m, idx, value) ==
    [m |-> InitializeOf(m, idx), outcome |-> Throw(CallOn("findTerms", value), "TypeError")]

\* findTerms(value), value not a string: after the lazy initialization a falsy
\* value returns [], any other value reaches automaton.search, where it has no
\* toLowerCase method: TypeError
FindTermsNonStringOf(m, idx, value) ==
    [m |-> InitializeOf(m, idx),
     outcome |-> IF Falsy(value) THEN Return(CallOn("findTerms", value), <<>>)
                                 ELSE Throw(CallOn("findTerms", value), "TypeError")]

InitTML ==
    /\ nodes = NewMatcher.ac.nodes
    /\ built = NewMatcher.ac.built
    /\ added = <<>>
    /\ index \in LifeIndexes
    /\ initialized = NewMatcher.initialized
    /\ userLevel = "medschool"
    /\ enableBetaFeatures = FALSE
    /\ text = <<>>
    /\ ret = None
    /\ prev = "none"
    /\ storage = EmptyStorage
    /\ calls = <<>>

FindTermsNonString(value) ==
    /\ LET r == FindTermsNonStringOf([ac |-> [nodes |-> nodes, built |-> built],
                                      initialized |-> initialized], index, value)
       IN  /\ nodes' = r.m.ac.nodes
           /\ built' = r.m.ac.built
           /\ initialized' = r.m.initialized
           /\ ret' = r.outcome
    /\ added' = IF initialized THEN added ELSE added \o GetAllPatterns(index)
    /\ UNCHANGED <<index, userLevel, enableBetaFeatures, text, prev, storage, calls>>

GetTermIdsAtPosition(txt, position) ==
    /\ LET r == FindTermsOf([ac |-> [nodes |-> nodes, built |-> built],
                             initialized |-> initialized],
                            index, userLevel, enableBetaFeatures, txt)
       IN  /\ nodes' = r.m.ac.nodes
           /\ built' = r.m.ac.built
           /\ initialized' = r.m.initialized
           /\ ret' = Return("getTermIdsAtPosition",
                            [position |-> position,
                             result |-> GetTermIdsAmong(r.value, position)])
    /\ added' = IF initialized THEN added ELSE added \o GetAllPatterns(index)
    /\ text' = txt
    /\ UNCHANGED <<index, userLevel, enableBetaFeatures, prev, storage, calls>>

\* the loader of the Term Index adds or removes patterns; the matcher is not called
IndexChanges(newIndex) ==
    /\ newIndex /= index
    /\ index' = newIndex
    /\ ret' = None
    /\ UNCHANGED <<nodes, built, added, initialized, userLevel, enableBetaFeatures, text, prev,
                 storage, calls>>

NextTML ==
    \/ \E level \in LevelInputs : SetUserLevel(level)
    \/ \E enabled \in BOOLEAN : SetBetaFeatures(enabled)
    \/ Initialize
    \/ \E txt \in LifeTmTexts : FindTerms(txt)
    \/ \E value \in NonStrings : FindTermsNonString(value)
    \/ \E txt \in LifeTmTexts : \E position \in -1..Len(txt) : GetTermIdsAtPosition(txt, position)
    \/ \E newIndex \in LifeIndexes : IndexChanges(newIndex)

SpecTML == InitTML /\ [][NextTML]_vars

-----------------------------------------------------------------------------
(* Properties of search *)

\* needle occurs in hay at the 0-based position i
OccursAt(hay, needle, i) ==
    /\ i + Len(needle) <= Len(hay)
    /\ SubSeq(hay, i + 1, i + Len(needle)) = needle

Searched == ret.op = "search"

\* C1: completeness of raw search. For every non-empty pattern p added and every
\* position i at which the lowercased text contains lowercase(p), search(T)
\* returns the record {start: i, end: i + length(p), pattern: lowercase(p)}.
C1_Completeness ==
    Searched =>
        \A k \in 1..Len(added) :
            added[k] /= <<>> =>
                \A i \in 0..Len(ToLowerCase(text)) :
                    OccursAt(ToLowerCase(text), ToLowerCase(added[k]), i) =>
                        \E j \in 1..Len(ret.value) :
                            ret.value[j] = [start |-> i, end |-> i + Len(added[k]),
                                            pattern |-> ToLowerCase(added[k])]

\* C2: soundness of raw search positions. Every record of search(T) is a range
\* into the original text T: 0 <= start < end <= length(T), end - start is the
\* length of the pattern, the pattern is an added pattern in lowercase, and the
\* lowercased T[start..end) is the pattern.
C2_Soundness ==
    Searched =>
        \A j \in 1..Len(ret.value) :
            LET r == ret.value[j]
            IN  /\ 0 <= r.start /\ r.start < r.end /\ r.end <= Len(text)
                /\ r.end - r.start = Len(r.pattern)
                /\ \E k \in 1..Len(added) : r.pattern = ToLowerCase(added[k])
                /\ ToLowerCase(Slice(text, r.start, r.end)) = r.pattern

\* Where lowercasing keeps every length and no pattern holds a surrogate pair,
\* both properties of search hold (the cases outside C1's and C2's failures).
LengthKept(str) == Len(ToLowerCase(str)) = Len(str) /\ Len(CodePoints(str)) = Len(str)
SearchExactOnPlainStrings ==
    (LengthKept(text) /\ \A k \in 1..Len(added) : LengthKept(added[k]))
        => C1_Completeness /\ C2_Soundness

-----------------------------------------------------------------------------
(* Properties of findTerms *)

Found == ret.op = "findTerms"

AsciiAlnum == AsciiLetters \cup AsciiDigits

\* the raw hits of the last findTerms call (the automaton is built by then) and
\* the candidates its filters accepted
RawMatches == SearchLoop(nodes, ToLowerCase(text), 0, Root, <<>>)
Candidates == ValidMatches(index, userLevel, enableBetaFeatures, text, RawMatches)

\* the pattern a span stands for: the lowercased text the automaton walked
PatternOf(m) == Slice(ToLowerCase(text), m.start, m.end)

SameSpan(a, b) == a.start = b.start /\ a.end = b.end
Returned(r) == \E k \in 1..Len(ret.value) : SameSpan(ret.value[k], r)
Accepted(r) == \E k \in 1..Len(Candidates) : SameSpan(Candidates[k], r)

\* the character before the span / at its end is an ASCII letter or digit
PrevIsAlnum(r) == r.start > 0 /\ r.start - 1 < Len(text) /\ text[r.start] \in AsciiAlnum
NextIsAlnum(r) == r.end < Len(text) /\ text[r.end + 1] \in AsciiAlnum

\* the raw hit r passes every filter other than the word-boundary check
PassesOtherFilters(r) ==
    /\ r.pattern \notin EXCLUDED_PATTERNS
    /\ IsValidCaseMatch(index, text, r.start, r.end, r.pattern)
    /\ Len(FilterByLevel(index, userLevel, enableBetaFeatures,
                         GetTermIdsForPattern(index, r.pattern))) > 0

\* C3: word-boundary property. findTerms never returns a match whose character
\* before start (when start > 0) or at end (when end < length) is an ASCII
\* letter or digit; a hit touching the beginning or the end of the text is not
\* rejected on that side.
C3_WordBoundary ==
    Found =>
        /\ \A k \in 1..Len(ret.value) :
              ~PrevIsAlnum(ret.value[k]) /\ ~NextIsAlnum(ret.value[k])
        /\ \A j \in 1..Len(RawMatches) :
              LET r == RawMatches[j]
              IN  /\ r.start = 0 =>
                        (IsWordBoundaryMatch(text, r.start, r.end) <=> ~NextIsAlnum(r))
                  /\ r.end = Len(text) =>
                        (IsWordBoundaryMatch(text, r.start, r.end) <=> ~PrevIsAlnum(r))

\* a hit inside a word was rejected by the boundary check alone
C3_Witness ==
    /\ Found
    /\ \E j \in 1..Len(RawMatches) :
          /\ PrevIsAlnum(RawMatches[j])
          /\ PassesOtherFilters(RawMatches[j])
          /\ ~Returned(RawMatches[j])

UnicodeWordChars == AsciiAlnum \cup {"_", EAcute, IDot}

\* C4 as claimed: no returned match has a Unicode letter, a Unicode digit or an
\* underscore immediately before start or immediately at end.
C4_UnicodeWordChars ==
    Found =>
        \A k \in 1..Len(ret.value) :
            LET m == ret.value[k]
            IN  /\ (m.start > 0 /\ m.start - 1 < Len(text)) => text[m.start] \notin UnicodeWordChars
                /\ m.end < Len(text) => text[m.end + 1] \notin UnicodeWordChars

\* C4 amended: the boundary check takes exactly the ASCII letters and digits as
\* word characters. A raw hit with one of them before start or at end is never
\* accepted; a raw hit inside the text with none of them there (an underscore or
\* a non-ASCII letter included) is accepted when the other filters pass.
C4_AsciiWordChars ==
    Found =>
        \A j \in 1..Len(RawMatches) :
            LET r == RawMatches[j]
            IN  /\ (PrevIsAlnum(r) \/ NextIsAlnum(r)) => ~Accepted(r)
                /\ (~PrevIsAlnum(r) /\ ~NextIsAlnum(r) /\ r.start <= Len(text)
                        /\ PassesOtherFilters(r)) => Accepted(r)

\* a match is returned right before an underscore or a non-ASCII letter
C4_Witness ==
    /\ Found
    /\ \E k \in 1..Len(ret.value) :
          /\ ret.value[k].end < Len(text)
          /\ text[ret.value[k].end + 1] \in {"_", EAcute}

\* C5: case-sensitivity property. A returned match whose pattern's metadata is
\* case-sensitive with a required casing has exactly that casing in the text.
C5_CaseSensitive ==
    Found =>
        \A k \in 1..Len(ret.value) :
            LET m == ret.value[k]
                meta == GetPatternMetadata(index, PatternOf(m))
            IN  (meta.present /\ meta.isCaseSensitive /\ meta.originalCase /= <<>>)
                    => Slice(text, m.start, m.end) = meta.originalCase

\* a match of a case-sensitive pattern is returned
C5_Witness ==
    /\ Found
    /\ \E k \in 1..Len(ret.value) :
          LET meta == GetPatternMetadata(index, PatternOf(ret.value[k]))
          IN  meta.present /\ meta.isCaseSensitive /\ meta.originalCase /= <<>>

\* C6: exclusion list. No returned match stands for a pattern of the exclusion
\* list, whatever the casing, the neighbours, the term identifiers, the user
\* level and the flag.
C6_Excluded ==
    Found => \A k \in 1..Len(ret.value) : PatternOf(ret.value[k]) \notin EXCLUDED_PATTERNS

\* an excluded pattern occurs as a whole word, with term identifiers that pass
\* the level filter, and is not returned
C6_Witness ==
    /\ Found
    /\ \E j \in 1..Len(RawMatches) :
          LET r == RawMatches[j]
          IN  /\ r.pattern \in EXCLUDED_PATTERNS
              /\ IsWordBoundaryMatch(text, r.start, r.end)
              /\ Len(FilterByLevel(index, userLevel, enableBetaFeatures,
                                   GetTermIdsForPattern(index, r.pattern))) > 0
              /\ ~Returned(r)

\* C7: final-output invariant. Every returned match has start < end, the matches
\* are in strictly ascending order of start, and consecutive matches do not overlap.
C7_SortedDisjoint ==
    Found =>
        /\ \A k \in 1..Len(ret.value) : ret.value[k].start < ret.value[k].end
        /\ \A k \in 1..(Len(ret.value) - 1) :
              /\ ret.value[k].start < ret.value[k + 1].start
              /\ ret.value[k].end <= ret.value[k + 1].start

\* several matches are returned after overlap resolution dropped a candidate
C7_Witness ==
    /\ Found
    /\ Len(ret.value) >= 2
    /\ Len(Candidates) > Len(ret.value)

\* the candidates starting where candidate c starts
AtStartOf(c) == {k \in 1..Len(Candidates) : Candidates[k].start = c.start}
IsLongestAtStart(c) ==
    \A k \in AtStartOf(c) : Candidates[k].end <= c.end
\* an earlier kept match reaches over the start of c
CoveredByEarlier(c) ==
    \E k \in 1..Len(ret.value) : ret.value[k].start < c.start /\ c.start < ret.value[k].end

\* C8 as claimed: whenever two or more accepted candidates start at the same
\* position, the longest of them is in the output.
C8_LongestAtStartKept ==
    Found =>
        \A j \in 1..Len(Candidates) :
            (Cardinality(AtStartOf(Candidates[j])) >= 2 /\ IsLongestAtStart(Candidates[j]))
                => Returned(Candidates[j])

\* C8 amended: whenever two or more accepted candidates start at the same
\* position, none but the longest of them is in the output, and the longest is
\* in the output unless an earlier kept match reaches over that position.
C8_LongestAtStartUnlessCovered ==
    Found =>
        \A j \in 1..Len(Candidates) :
            LET c == Candidates[j]
            IN  Cardinality(AtStartOf(c)) >= 2 =>
                    /\ ~IsLongestAtStart(c) => ~Returned(c)
                    /\ (IsLongestAtStart(c) /\ ~CoveredByEarlier(c)) => Returned(c)
                    /\ (IsLongestAtStart(c) /\ CoveredByEarlier(c)) => ~Returned(c)

\* two candidates share a start and the longer one is returned
C8_Witness ==
    /\ Found
    /\ \E j \in 1..Len(Candidates) :
          /\ Cardinality(AtStartOf(Candidates[j])) >= 2
          /\ IsLongestAtStart(Candidates[j])
          /\ Returned(Candidates[j])

\* C9: level filtering. Every returned term identifier that has metadata has
\* the tier of the effective caller level; a missing level counts as
\* 'medschool', the caller level 'all' as 'medschool'.
C9_LevelTier ==
    Found =>
        \A k \in 1..Len(ret.value) :
            \A t \in 1..Len(ret.value[k].termIds) :
                LET meta == TermsGet(index, ret.value[k].termIds[t])
                IN  meta.present =>
                        LEVEL_HIERARCHY(IF meta.level = "" THEN "medschool" ELSE meta.level)
                            = LEVEL_HIERARCHY(IF userLevel = "all" THEN "medschool" ELSE userLevel)

\* a match is returned without one of its pattern's terms, which is of another tier
C9_Witness ==
    /\ Found
    /\ index.hasTerms
    /\ \E k \in 1..Len(ret.value) :
          Len(ret.value[k].termIds) < Len(GetTermIdsForPattern(index, PatternOf(ret.value[k])))

OtherOfAllAndMedschool(level) == IF level = "all" THEN "medschool" ELSE "all"

\* C10: 'all' is equivalent to 'medschool'. A matcher set to one of them returns
\* the matches a fresh matcher on the same index and flag set to the other
\* returns; with 'all', no 'premed' term is returned.
C10_AllIsMedschool ==
    (Found /\ userLevel \in {"all", "medschool"}) =>
        /\ ret.value = FindTermsOf(NewMatcher, index, OtherOfAllAndMedschool(userLevel),
                                   enableBetaFeatures, text).value
        /\ \A k \in 1..Len(ret.value) :
              \A t \in 1..Len(ret.value[k].termIds) :
                  TermsGet(index, ret.value[k].termIds[t]).level /= "premed"

\* with 'all', a match is returned for a pattern that also has a 'premed' term
C10_Witness ==
    /\ Found
    /\ userLevel = "all"
    /\ \E k \in 1..Len(ret.value) :
          \E t \in 1..Len(GetTermIdsForPattern(index, PatternOf(ret.value[k]))) :
              TermsGet(index, GetTermIdsForPattern(index, PatternOf(ret.value[k]))[t]).level
                  = "premed"

\* the term metadata marks the term as one of the opt-in set
IsBetaTerm(termId) ==
    LET meta == TermsGet(index, termId)
    IN  meta.present /\ meta.level \in BETA_TERM_LEVELS

\* C11: feature flag. While the flag is off, no term identifier whose metadata
\* marks it as belonging to the opt-in set is in a match returned by findTerms,
\* whatever the user level.
C11_FlagOffHidesBeta ==
    (Found /\ ~enableBetaFeatures) =>
        \A k \in 1..Len(ret.value) :
            \A t \in 1..Len(ret.value[k].termIds) : ~IsBetaTerm(ret.value[k].termIds[t])

\* with the flag off, a match is returned for a pattern that has an opt-in term
C11_Witness ==
    /\ Found
    /\ ~enableBetaFeatures
    /\ userLevel /= "premed"
    /\ \E k \in 1..Len(ret.value) :
          \E t \in 1..Len(GetTermIdsForPattern(index, PatternOf(ret.value[k]))) :
              IsBetaTerm(GetTermIdsForPattern(index, PatternOf(ret.value[k]))[t])

\* the term identifiers of the candidate with the span of r
TermIdsAccepted(r) ==
    UNION { {Candidates[k].termIds[t] : t \in 1..Len(Candidates[k].termIds)} :
              k \in {j \in 1..Len(Candidates) : SameSpan(Candidates[j], r)} }

\* C20: fail-open on missing metadata. A term identifier without term metadata
\* (or under an index without a term-metadata lookup) passes the level and
\* feature filtering for every user level and flag value: it is among the term
\* identifiers of every hit of its pattern that passes the exclusion, boundary
\* and case checks. A hit of a pattern without pattern metadata passes the case
\* check for every casing of the text: it is accepted when it passes the
\* exclusion, boundary and level checks.
C20_FailOpen ==
    Found =>
        \A j \in 1..Len(RawMatches) :
            LET r == RawMatches[j]
                termIds == GetTermIdsForPattern(index, r.pattern)
            IN  /\ (/\ r.pattern \notin EXCLUDED_PATTERNS
                     /\ IsWordBoundaryMatch(text, r.start, r.end)
                     /\ IsValidCaseMatch(index, text, r.start, r.end, r.pattern))
                        => \A t \in 1..Len(termIds) :
                              ~TermsGet(index, termIds[t]).present
                                  => termIds[t] \in TermIdsAccepted(r)
                /\ (/\ ~GetPatternMetadata(index, r.pattern).present
                     /\ r.pattern \notin EXCLUDED_PATTERNS
                     /\ IsWordBoundaryMatch(text, r.start, r.end)
                     /\ Len(FilterByLevel(index, userLevel, enableBetaFeatures, termIds)) > 0)
                        => Accepted(r)

\* a match in another casing than its pattern, which has no pattern metadata, is
\* returned to a 'premed' caller with a term identifier that has no metadata
C20_Witness ==
    /\ Found
    /\ userLevel = "premed"
    /\ \E k \in 1..Len(ret.value) :
          LET m == ret.value[k]
          IN  /\ ~GetPatternMetadata(index, PatternOf(m)).present
              /\ Slice(text, m.start, m.end) /= PatternOf(m)
              /\ \E t \in 1..Len(m.termIds) : ~TermsGet(index, m.termIds[t]).present

-----------------------------------------------------------------------------
(* Properties of the automaton over sequences of calls *)

\* a fresh automaton on which every pattern added so far is added, built once
FreshBuilt == BuildOf(AddPatternsTo(NewAutomaton, added))

\* C12: rebuild after further insertions. An automaton on which patterns were
\* added, build() was called, more patterns were added and build() was called
\* again returns from search(T) exactly the records a fresh automaton with all
\* these patterns, built once, returns.
C12_RebuildEqualsFresh ==
    (Searched /\ prev = "build") =>
        ret.value = SearchOf(FreshBuilt, text).results

\* some node reports a pattern that it got from its fail-link
HasMergedOutput == \E n \in 1..Len(nodes) : Len(nodes[n].output) >= 2

\* C13: idempotence of build. A build() on a built automaton changes no node (no
\* fail-link, no output list) and not the built flag, so every search returns
\* after it what it returned before.
C13_BuildIdempotent ==
    [][(built /\ Build) =>
          /\ nodes' = nodes
          /\ built' = built
          /\ \A txt \in LifeTexts :
                SearchOf([nodes |-> nodes', built |-> built'], txt).results
                    = SearchOf([nodes |-> nodes, built |-> built], txt).results]_vars

\* build() was called twice in a row on a trie with merged outputs
C13_Witness ==
    /\ ret.op = "build"
    /\ prev = "build"
    /\ HasMergedOutput

\* every node but the root has the fail-link a fresh build of the same patterns gives it
FailLinksFresh ==
    /\ Len(nodes) = Len(FreshBuilt.nodes)
    /\ \A n \in 1..Len(nodes) :
          /\ nodes[n].fail = FreshBuilt.nodes[n].fail
          /\ n /= Root => nodes[n].fail /= Nil

\* C14: build-before-search. addPattern of a non-empty pattern clears the built
\* flag; every search leaves the automaton built and throws nothing, has walked
\* fail-links that are all present and up to date, and has returned what an
\* explicit build() followed by the search returns.
C14_SearchOnBuilt ==
    /\ (ret.op = "addPattern" /\ added[Len(added)] /= <<>>) => ~built
    /\ Searched =>
          /\ built
          /\ ret.threw = ""
          /\ FailLinksFresh
          /\ ret.value = SearchOf(BuildOf([nodes |-> nodes, built |-> built]), text).results

\* a search ran right after patterns were added and followed a fail-link that
\* is not the root
C14_Witness ==
    /\ Searched
    /\ prev \in {"addPattern", "addPatterns"}
    /\ added /= <<>> /\ added[Len(added)] /= <<>>
    /\ ret.value /= <<>>
    /\ \E n \in 1..Len(nodes) : nodes[n].fail \notin {Nil, Root}

\* addPattern with an empty string or with a value that is not a string
MalformedCall ==
    \/ AddPattern(<<>>)
    \/ \E value \in NonStrings : AddPatternNonString(value)

\* C15: malformed pattern input. addPattern with an empty string, null,
\* undefined or another value that is not a string throws nothing and leaves the
\* trie, every output list and the built flag unchanged.
C15_MalformedIgnored ==
    [][MalformedCall => (ret'.threw = "" /\ nodes' = nodes /\ built' = built)]_vars

\* C17: search modifies nothing. A search on a built automaton changes no node
\* and not the built flag, so a search of any text returns after it what it
\* returned before, and the same search again returns the same records.
C17_SearchFrame ==
    [][(built /\ Search(text')) =>
          /\ nodes' = nodes
          /\ built' = built
          /\ ret'.value = SearchOf([nodes |-> nodes', built |-> built'], text').results
          /\ \A txt \in LifeTexts :
                SearchOf([nodes |-> nodes', built |-> built'], txt).results
                    = SearchOf([nodes |-> nodes, built |-> built], txt).results]_vars

\* two searches in a row, the second one reporting several records
C17_Witness ==
    /\ Searched
    /\ prev = "search"
    /\ Len(ret.value) >= 2
    /\ HasMergedOutput

-----------------------------------------------------------------------------
(* Properties of the matcher over sequences of calls *)

\* some non-empty pattern of the automaton occurs in the lowercased text
SomePatternOccurs ==
    \E k \in 1..Len(added) :
        /\ added[k] /= <<>>
        /\ \E i \in 0..Len(ToLowerCase(text)) :
              OccursAt(ToLowerCase(text), ToLowerCase(added[k]), i)

\* C16: empty inputs. findTerms returns an empty sequence and throws nothing
\* for a null (or undefined) text and for the empty string, whatever the Term
\* Index, for every text when the Term Index has no pattern, and for a text in
\* which no pattern occurs.
C16_EmptyInputs ==
    /\ ret.op \in {CallOn("findTerms", "null"), CallOn("findTerms", "undefined")}
          => (ret.value = <<>> /\ ret.threw = "")
    /\ Found =>
          /\ ret.threw = ""
          /\ text = <<>> => ret.value = <<>>
          /\ (added = <<>> \/ index.patterns = <<>>) => ret.value = <<>>
          /\ ~SomePatternOccurs => ret.value = <<>>

\* findTerms(null) returned on an index that holds patterns
C16_Witness ==
    /\ ret.op = CallOn("findTerms", "null")
    /\ initialized
    /\ added /= <<>>

\* the matches findTerms(text) returns now, the matcher being initialized
MatchesNow ==
    FindTermsOf([ac |-> [nodes |-> nodes, built |-> built], initialized |-> initialized],
                index, userLevel, enableBetaFeatures, text).value
\* those that contain the position p
Containing(p) ==
    {k \in 1..Len(MatchesNow) : MatchesNow[k].start <= p /\ p < MatchesNow[k].end}

\* C18: position lookup. getTermIdsAtPosition(T, p) returns the termIds of the
\* match of findTerms(T) with start <= p < end when there is one, and null
\* otherwise; at most one match of findTerms(T) contains p.
C18_PositionLookup ==
    ret.op = "getTermIdsAtPosition" =>
        LET p == ret.value.position
            result == ret.value.result
        IN  /\ Cardinality(Containing(p)) <= 1
            /\ Containing(p) = {} => result.isNull
            /\ \A k \in Containing(p) :
                  ~result.isNull /\ result.termIds = MatchesNow[k].termIds

\* the position is inside the second of two matches, whose termIds are returned
C18_Witness ==
    /\ ret.op = "getTermIdsAtPosition"
    /\ Len(MatchesNow) >= 2
    /\ 2 \in Containing(ret.value.position)
    /\ ~ret.value.result.isNull

\* C19: lazy initialization happens exactly once. The patterns of the Term Index
\* are read and inserted into the automaton only by the call that finds the
\* matcher not initialized; from then on no call, and no change of the Term
\* Index, changes the automaton or the patterns it searches for.
C19_InitializedOnce ==
    [][/\ initialized =>
             (initialized' /\ added' = added /\ nodes' = nodes /\ built' = built)
       /\ (~initialized /\ initialized') =>
             (added' = GetAllPatterns(index) /\ index' = index /\ built')
       /\ ~initialized' => (added' = <<>> /\ nodes' = NewMatcher.ac.nodes)]_vars

\* findTerms returns matches after the Term Index came to hold other patterns
\* than the automaton
C19_Witness ==
    /\ Found
    /\ initialized
    /\ GetAllPatterns(index) /= added
    /\ ret.value /= <<>>

-----------------------------------------------------------------------------
(* shouldBeCaseSensitive as loadTerm calls it, on the strings of a term *)

MaxHeadLen == 2

CsAlphabet == {"a", "s", "h", "A", "S", "1", " "}
\* endings that bring a string to the lengths 4 and 6 the rules compare with
CsTails ==
    { <<>>, <<"s">>, <<"a", "a">>, <<"a", "a", "a">>, <<"a", "a", "a", "a">>,
      <<"S", "a", "a", "a", "a">> }
\* the strings of a term's patterns, names, aliases and abbr fields
CsStrings == {head \o tail : head \in SeqsUpTo(CsAlphabet, MaxHeadLen), tail \in CsTails}

InitCS ==
    /\ nodes = NewAutomaton.nodes
    /\ built = NewAutomaton.built
    /\ added = <<>>
    /\ index = NoIndex
    /\ initialized = FALSE
    /\ userLevel = "medschool"
    /\ enableBetaFeatures = FALSE
    /\ text = <<>>
    /\ ret = None
    /\ prev = "none"
    /\ storage = EmptyStorage
    /\ calls = <<>>

\* shouldBeCaseSensitive(pattern, original, isFromAbbr)
ShouldBeCaseSensitiveCall(pattern, original, isFromAbbr) ==
    /\ ret' = Return("shouldBeCaseSensitive",
                     [pattern |-> pattern, original |-> original, isFromAbbr |-> isFromAbbr,
                      result |-> ShouldBeCaseSensitive(pattern, original, isFromAbbr)])
    /\ UNCHANGED <<nodes, built, added, index, initialized, userLevel, enableBetaFeatures, text,
                   prev, storage, calls>>

\* the function is pure: one call on each string and flag
NextCS ==
    \E str \in CsStrings, isFromAbbr \in BOOLEAN :
        ret = None /\ ShouldBeCaseSensitiveCall(NormalizePattern(str), Trim(str), isFromAbbr)

SpecCS == InitCS /\ [][NextCS]_vars

\* a call of shouldBeCaseSensitive has returned
Classified == ret.op = "shouldBeCaseSensitive"

\* first character an uppercase letter, no uppercase letter after it
SentenceCase(original) ==
    /\ original /= <<>>
    /\ original[1] \in AsciiUpper
    /\ \A k \in 2..Len(original) : original[k] \notin AsciiUpper

\* C21: case-sensitivity classification follows the six ordered rules, the first
\* applicable one deciding: (1) a pattern of the exclusion list is not case
\* sensitive; (2) from an abbreviation field and of length <= 6: case sensitive,
\* the original uppercased; (3) of length <= 4 and the original entirely
\* uppercase: case sensitive, the original as it is; (4) of length <= 6, the
\* original holding an uppercase letter and not in sentence case: case
\* sensitive, the original as it is; (5) 2 to 4 lowercase letters, not a common
\* word: case sensitive, the pattern uppercased; (6) otherwise not case
\* sensitive. Letters are the letters A-Z and a-z.
C21_SixRules ==
    Classified =>
        LET pattern == ret.value.pattern
            original == ret.value.original
            rule1 == pattern \in EXCLUDED_PATTERNS
            rule2 == ret.value.isFromAbbr /\ Len(pattern) <= 6
            rule3 == Len(pattern) <= 4 /\ \A k \in 1..Len(original) : original[k] \notin AsciiLower
            rule4 == /\ Len(pattern) <= 6
                     /\ \E k \in 1..Len(original) : original[k] \in AsciiUpper
                     /\ ~SentenceCase(original)
            rule5 == /\ Len(pattern) \in 2..4
                     /\ \A k \in 1..Len(pattern) : pattern[k] \in AsciiLower
                     /\ pattern \notin commonWords
        IN  ret.value.result =
                CASE rule1 -> [isCaseSensitive |-> FALSE, originalCase |-> <<>>]
                  [] ~rule1 /\ rule2 ->
                        [isCaseSensitive |-> TRUE, originalCase |-> ToUpperCase(original)]
                  [] ~rule1 /\ ~rule2 /\ (rule3 \/ rule4) ->
                        [isCaseSensitive |-> TRUE, originalCase |-> original]
                  [] ~rule1 /\ ~rule2 /\ ~rule3 /\ ~rule4 /\ rule5 ->
                        [isCaseSensitive |-> TRUE, originalCase |-> ToUpperCase(pattern)]
                  [] OTHER -> [isCaseSensitive |-> FALSE, originalCase |-> <<>>]

\* an abbreviation of mixed case: rule 2 decides before rule 4, and the casing
\* asked for is not the casing written
C21_Witness ==
    /\ Classified
    /\ ret.value.isFromAbbr
    /\ Len(ret.value.pattern) = 6
    /\ \E k \in 1..Len(ret.value.original) : ret.value.original[k] \in AsciiUpper
    /\ ~SentenceCase(ret.value.original)
    /\ ret.value.result.isCaseSensitive
    /\ ret.value.result.originalCase /= ret.value.original

-----------------------------------------------------------------------------
(* The index builder: loadTerm on the terms of the glossary files *)

MaxTerms == 2

\* a term of a glossary file; a field the file leaves out is empty
TermData(id, names, patterns, aliases, abbr, level) ==
    [id |-> id, names |-> names, patterns |-> patterns, aliases |-> aliases, abbr |-> abbr,
     level |-> level]

GiTerms ==
    { TermData(id, names, patterns, aliases, abbr, level) :
        id \in {<<>>, <<"t", "1">>},
        names \in {<<>>, << <<"a">> >>, << <<"A">>, <<" ", "S", "a", " ">> >>},
        patterns \in {<<>>, << <<"s">>, <<"A", "s">>, <<"s", "a">> >>},
        aliases \in {<<>>, << <<" ">>, <<"1">> >>},
        abbr \in {<<>>, << <<"a">>, <<"s", "a">>, <<"h", "a", "s">> >>},
        level \in {"", "premed"} }

InitGI ==
    /\ nodes = NewAutomaton.nodes
    /\ built = NewAutomaton.built
    /\ added = <<>>
    /\ index = NewGlossaryIndex
    /\ initialized = FALSE
    /\ userLevel = "medschool"
    /\ enableBetaFeatures = FALSE
    /\ text = <<>>
    /\ ret = None
    /\ prev = "none"
    /\ storage = EmptyStorage
    /\ calls = <<>>

\* loadTerm(index, termData)
LoadTerm(termData) ==
    /\ index' = LoadTermOf(index, termData)
    /\ ret' = Return("loadTerm", TermIdOf(termData))
    /\ UNCHANGED <<nodes, built, added, initialized, userLevel, enableBetaFeatures, text, prev,
                   storage, calls>>

NextGI == \E termData \in GiTerms : Len(index.terms) < MaxTerms /\ LoadTerm(termData)

SpecGI == InitGI /\ [][NextGI]_vars

\* the metadata of a pattern key marks it case-sensitive
MarkedCaseSensitive(key) ==
    /\ MapHas(index.patternMetadata, key)
    /\ MapGet(index.patternMetadata, key).isCaseSensitive

\* C22: pattern length in the Term Index. After loading any list of terms every
\* pattern key of the index is a non-empty, trimmed, lowercase string that is
\* not in the exclusion list and has 2 or more characters, a shorter one being
\* present only if its metadata marks it case-sensitive.
C22_PatternKeys ==
    \A k \in 1..Len(index.patterns) :
        LET key == index.patterns[k].key
        IN  /\ key /= <<>>
            /\ key = Trim(key)
            /\ key = ToLowerCase(key)
            /\ key \notin EXCLUDED_PATTERNS
            /\ (Len(key) >= 2 \/ MarkedCaseSensitive(key))

-----------------------------------------------------------------------------
(* The storage module called by the message handlers: every call reads       *)
(* chrome.storage.local at its first await and writes it at its second, and  *)
(* the calls of different messages interleave at the awaits                  *)

MaxCalls == 2

\* the settings a user may have saved
SavedSettings ==
    { [EmptyStorage EXCEPT !.ems_enabled = enabled, !.ems_disabled_sites = disabled,
                           !.ems_enabled_sites = enabledSites] :
        enabled \in {NotStored(TRUE), Stored(FALSE)},
        disabled \in {NotStored(<<>>), Stored(<<"a.com">>)},
        enabledSites \in {NotStored(<<>>), Stored(<<"b.com">>)} }

\* a call of the storage module: pc is the await it stands at
Call(op, pc, termId, category, hostname) ==
    [op |-> op, pc |-> pc, termId |-> termId, category |-> category, hostname |-> hostname,
     stats |-> NoStats, disabledSites |-> <<>>, result |-> FALSE]

InitST ==
    /\ nodes = NewAutomaton.nodes
    /\ built = NewAutomaton.built
    /\ added = <<>>
    /\ index = NoIndex
    /\ initialized = FALSE
    /\ userLevel = "medschool"
    /\ enableBetaFeatures = FALSE
    /\ text = <<>>
    /\ ret = None
    /\ prev = "none"
    /\ storage \in SavedSettings
    /\ calls = <<>>

StorageFrame ==
    UNCHANGED <<nodes, built, added, index, initialized, userLevel, enableBetaFeatures, text,
                prev>>

\* recordView(termId, category) is called and waits for getStats()
RecordView(termId, category) ==
    /\ calls' = Append(calls, Call("recordView", "get", termId, category, ""))
    /\ UNCHANGED <<storage, ret>>
    /\ StorageFrame

\* getStats() resolves: the stats read are incremented and set() is called
RecordViewRead(c) ==
    /\ calls[c].op = "recordView" /\ calls[c].pc = "get"
    /\ calls' = [calls EXCEPT ![c].pc = "set",
                              ![c].stats = RecordViewOf(GetStats(storage), calls[c].termId,
                                                        calls[c].category)]
    /\ UNCHANGED <<storage, ret>>
    /\ StorageFrame

\* set(STORAGE_KEYS.STATS, stats) resolves and recordView completes
RecordViewWritten(c) ==
    /\ calls[c].op = "recordView" /\ calls[c].pc = "set"
    /\ storage' = StorageSet(storage, "ems_stats", calls[c].stats)
    /\ calls' = [calls EXCEPT ![c].pc = "done"]
    /\ ret' = Return("recordView", calls[c].termId)
    /\ StorageFrame

\* toggleSite(hostname) is called and waits for getSettings()
ToggleSite(hostname) ==
    /\ calls' = Append(calls, Call("toggleSite", "get", "", "", hostname))
    /\ UNCHANGED <<storage, ret>>
    /\ StorageFrame

\* getSettings() resolves: the list is changed and set() is called
ToggleSiteRead(c) ==
    /\ calls[c].op = "toggleSite" /\ calls[c].pc = "get"
    /\ LET toggled == ToggleSiteOf(GetSettings(storage), calls[c].hostname)
       IN  calls' = [calls EXCEPT ![c].pc = "set",
                                  ![c].disabledSites = toggled.disabledSites,
                                  ![c].result = toggled.result]
    /\ UNCHANGED <<storage, ret>>
    /\ StorageFrame

\* set(STORAGE_KEYS.DISABLED_SITES, disabledSites) resolves and toggleSite returns
ToggleSiteWritten(c) ==
    /\ calls[c].op = "toggleSite" /\ calls[c].pc = "set"
    /\ storage' = StorageSet(storage, "ems_disabled_sites", calls[c].disabledSites)
    /\ calls' = [calls EXCEPT ![c].pc = "done"]
    /\ ret' = Return("toggleSite",
                     [hostname |-> calls[c].hostname, result |-> calls[c].result])
    /\ StorageFrame

\* isSiteEnabled(hostname) is called and waits for getSettings()
IsSiteEnabled(hostname) ==
    /\ calls' = Append(calls, Call("isSiteEnabled", "get", "", "", hostname))
    /\ UNCHANGED <<storage, ret>>
    /\ StorageFrame

\* getSettings() resolves and isSiteEnabled returns
IsSiteEnabledReturns(c) ==
    /\ calls[c].op = "isSiteEnabled" /\ calls[c].pc = "get"
    /\ calls' = [calls EXCEPT ![c].pc = "done"]
    /\ ret' = Return("isSiteEnabled",
                     [hostname |-> calls[c].hostname,
                      result |-> IsSiteEnabledOf(GetSettings(storage), calls[c].hostname)])
    /\ UNCHANGED storage
    /\ StorageFrame

NextST ==
    \/ \E termId \in ViewTermIds, category \in ViewCategories :
            Len(calls) < MaxCalls /\ RecordView(termId, category)
    \/ \E hostname \in Hostnames : Len(calls) < MaxCalls /\ ToggleSite(hostname)
    \/ \E hostname \in Hostnames : Len(calls) < MaxCalls /\ IsSiteEnabled(hostname)
    \/ \E c \in 1..Len(calls) : RecordViewRead(c)
    \/ \E c \in 1..Len(calls) : RecordViewWritten(c)
    \/ \E c \in 1..Len(calls) : ToggleSiteRead(c)
    \/ \E c \in 1..Len(calls) : ToggleSiteWritten(c)
    \/ \E c \in 1..Len(calls) : IsSiteEnabledReturns(c)

SpecST == InitST /\ [][NextST]_vars

\* the calls of op that have completed
Completed(cs, op) == {c \in 1..Len(cs) : cs[c].op = op /\ cs[c].pc = "done"}

\* C23: recordView counts every view. Nothing being stored at the start, the
\* stored totalViews equals the number of recordView calls that have completed
\* (and termViews[termId] the number of those for termId), however the read and
\* write steps of the calls interleave.
C23_EveryViewCounted ==
    /\ GetStats(storage).totalViews = Cardinality(Completed(calls, "recordView"))
    /\ \A t \in ViewTermIds :
          GetStats(storage).termViews[t] =
              Cardinality({c \in Completed(calls, "recordView") : calls[c].termId = t})

\* C24: toggleSite returns the site's new enabled status. In the step in which
\* toggleSite(hostname) returns, the value returned is the value
\* isSiteEnabled(hostname) gives on the settings then stored.
C24_ToggleReturnsStatus ==
    [][(/\ Cardinality(Completed(calls', "toggleSite"))
             > Cardinality(Completed(calls, "toggleSite")))
         => ret'.value.result = IsSiteEnabledOf(GetSettings(storage'), ret'.value.hostname)]_vars

-----------------------------------------------------------------------------
(* The fail-links of a built automaton *)

\* the node whose children hold n, and the character of that edge
ParentOf(n) ==
    CHOOSE m \in 1..Len(nodes) : \E k \in 1..Len(nodes[m].children) :
        nodes[m].children[k].node = n
CharOf(n) ==
    LET kids == nodes[ParentOf(n)].children
    IN  kids[CHOOSE k \in 1..Len(kids) : kids[k].node = n].char

\* the string spelled from the root to n
RECURSIVE PathOf(_)
PathOf(n) == IF n = Root THEN <<>> ELSE Append(PathOf(ParentOf(n)), CharOf(n))

\* the node that spells path from the root, Nil when the trie has no such node
RECURSIVE NodeOf(_, _)
NodeOf(n, path) ==
    IF path = <<>> THEN n
    ELSE IF Has(nodes[n].children, Head(path))
    THEN NodeOf(Get(nodes[n].children, Head(path)), Tail(path))
    ELSE Nil

\* the node of the longest proper suffix of n's path that the trie holds; the
\* empty suffix is the root
LongestProperSuffix(n) ==
    LET path == PathOf(n)
        suffix(k) == SubSeq(path, k, Len(path))
        held == {k \in 2..(Len(path) + 1) : NodeOf(Root, suffix(k)) /= Nil}
        longest == CHOOSE k \in held : \A j \in held : k <= j
    IN  NodeOf(Root, suffix(longest))

\* C25: fail-link invariant. In every built state reached by addPattern, build
\* and search the root's fail-link is null and the fail-link of every other
\* node is the node of the longest proper suffix of its path that the trie
\* holds, the root when there is none; the nodes of depth 1 point at the root.
C25_FailLinks ==
    built =>
        /\ nodes[Root].fail = Nil
        /\ \A n \in 2..Len(nodes) :
              /\ nodes[n].fail = LongestProperSuffix(n)
              /\ nodes[n].depth = Len(PathOf(n))
              /\ nodes[n].depth = 1 => nodes[n].fail = Root

\* a rebuilt automaton with a node of depth 3 whose parent's fail-link has no
\* child for its character, and whose own fail-link is not the root
C25_Witness ==
    /\ built
    /\ prev = "build"
    /\ \E n \in 2..Len(nodes) :
          /\ nodes[n].depth = 3
          /\ nodes[n].fail /= Root
          /\ ~Has(nodes[nodes[ParentOf(n)].fail].children, CharOf(n))

-----------------------------------------------------------------------------
(* Overlap resolution as a selection over the accepted candidates *)

Span(m) == [start |-> m.start, end |-> m.end]
Spans(matches) == [k \in 1..Len(matches) |-> Span(matches[k])]

\* the left-to-right greedy selection: of the candidates that start at or after
\* lastEnd, the one of the smallest start and, among these, of the largest
\* length; then on from its end
RECURSIVE GreedySpans(_, _)
GreedySpans(cands, lastEnd) ==
    LET open == {j \in 1..Len(cands) : cands[j].start >= lastEnd}
    IN  IF open = {} THEN <<>>
        ELSE LET first == CHOOSE j \in open :
                     /\ \A i \in open : cands[j].start <= cands[i].start
                     /\ \A i \in open : cands[i].start = cands[j].start
                                            => cands[i].end <= cands[j].end
             IN  <<Span(cands[first])>> \o GreedySpans(cands, cands[first].end)

\* C26: longer wins ties at the same start. No match of the output shares its
\* start with a strictly longer candidate that passed the filters, and the
\* output is the left-to-right greedy selection over the candidates ordered by
\* ascending start, then descending length.
C26_LongerWinsGreedy ==
    Found =>
        LET cands == Candidates
        IN  /\ \A k \in 1..Len(ret.value) : \A j \in 1..Len(cands) :
                  cands[j].start = ret.value[k].start => cands[j].end <= ret.value[k].end
            /\ Spans(ret.value) = GreedySpans(cands, -1)

\* two candidates of different lengths share a start, the longer one is
\* returned, and the selection goes on to a second match behind it
C26_Witness ==
    /\ Found
    /\ Len(ret.value) >= 2
    /\ \E j \in 1..Len(Candidates) :
          /\ Candidates[j].start = ret.value[1].start
          /\ Candidates[j].end < ret.value[1].end

-----------------------------------------------------------------------------
(* The filters run before overlap resolution *)

Overlap(a, b) == a.start < b.end /\ b.start < a.end

\* the raw hit r passes the exclusion, boundary, case and level filters
PassesFilters(r) == IsWordBoundaryMatch(text, r.start, r.end) /\ PassesOtherFilters(r)

\* the raw hit r is rejected because the level filter leaves none of its terms
RejectedByLevel(r) ==
    /\ Len(GetTermIdsForPattern(index, r.pattern)) > 0
    /\ Len(FilterByLevel(index, userLevel, enableBetaFeatures,
                         GetTermIdsForPattern(index, r.pattern))) = 0

\* C27: filters run before overlap resolution. A raw hit that a filter rejects
\* never suppresses another candidate: every raw hit that passes the filters is
\* returned unless a returned match, itself a hit that passed the filters,
\* overlaps it; so a shorter pattern inside the span of a longer one whose
\* terms the level filter removed is returned when its own checks pass and no
\* kept match overlaps it.
C27_FiltersBeforeOverlaps ==
    Found =>
        LET raw == RawMatches
            kept(k) == \E i \in 1..Len(raw) : SameSpan(raw[i], ret.value[k]) /\ PassesFilters(raw[i])
        IN  /\ \A k \in 1..Len(ret.value) : kept(k)
            /\ \A j \in 1..Len(raw) :
                  PassesFilters(raw[j]) =>
                      \/ Returned(raw[j])
                      \/ \E k \in 1..Len(ret.value) : Overlap(ret.value[k], raw[j])

\* a returned match lies inside the span of a longer raw hit that starts before
\* it and whose terms the level filter removed
C27_Witness ==
    /\ Found
    /\ \E j, l \in 1..Len(RawMatches) :
          /\ Returned(RawMatches[j])
          /\ RawMatches[l].start < RawMatches[j].start
          /\ RawMatches[j].end <= RawMatches[l].end
          /\ RejectedByLevel(RawMatches[l])
          /\ IsWordBoundaryMatch(text, RawMatches[l].start, RawMatches[l].end)

-----------------------------------------------------------------------------
(* The term identifiers of a returned match *)

\* the level and feature filters keep the term: it has no metadata, or it is
\* not of the opt-in set while the flag is off and its tier is the caller's
KeptByFilters(termId) ==
    LET meta == TermsGet(index, termId)
        termLevel == IF meta.level = "" THEN "medschool" ELSE meta.level
        callerLevel == IF userLevel = "all" THEN "medschool" ELSE userLevel
        tier(level) == IF level = "premed" THEN 0 ELSE IF level = "all" THEN 2 ELSE 1
    IN  meta.present =>
            /\ ~(termLevel \in BETA_TERM_LEVELS /\ ~enableBetaFeatures)
            /\ tier(termLevel) = tier(callerLevel)

\* the index's list for pattern, without the identifiers the filters reject
TermIdsFor(pattern) ==
    SelectSeq(GetTermIdsForPattern(index, pattern), KeptByFilters)

\* C28: term identifiers of a match. Every match findTerms returns carries a
\* non-empty termIds list that is the index's list for the matched pattern,
\* the lowercased substring T[start..end), without the identifiers the level
\* and feature filters reject, in the order of the index.
C28_TermIdsOfSubstring ==
    Found =>
        \A k \in 1..Len(ret.value) :
            LET m == ret.value[k]
            IN  /\ m.termIds /= <<>>
                /\ m.termIds = TermIdsFor(ToLowerCase(Slice(text, m.start, m.end)))

\* the same with the pattern read where the automaton matched it, in the
\* lowercased text
TermIdsOfWalkedPattern ==
    Found =>
        \A k \in 1..Len(ret.value) :
            /\ ret.value[k].termIds /= <<>>
            /\ ret.value[k].termIds = TermIdsFor(PatternOf(ret.value[k]))

-----------------------------------------------------------------------------
(* Maximality of the output *)

\* C29: maximality of the output. Every accepted candidate absent from the
\* output of findTerms overlaps at least one match of the output, and candidates
\* of one start and end are returned as a single match.
C29_Maximal ==
    Found =>
        LET cands == Candidates
        IN  \A j \in 1..Len(cands) :
                /\ ~Returned(cands[j]) =>
                       \E k \in 1..Len(ret.value) : Overlap(ret.value[k], cands[j])
                /\ Cardinality({k \in 1..Len(ret.value) : SameSpan(ret.value[k], cands[j])}) <= 1

\* two candidates have the same start and end, another candidate is not in the
\* output, and two matches are returned
C29_Witness ==
    /\ Found
    /\ Len(ret.value) >= 2
    /\ \E i, j \in 1..Len(Candidates) : i < j /\ SameSpan(Candidates[i], Candidates[j])
    /\ \E j \in 1..Len(Candidates) : ~Returned(Candidates[j])

-----------------------------------------------------------------------------
(* Terms of level 'all' *)

\* the index has metadata for the term and records the level 'all'
IsAllTerm(termId) == TermsGet(index, termId).present /\ TermsGet(index, termId).level = "all"

\* every term of the pattern is of level 'all'
OnlyAllTerms(pattern) ==
    LET termIds == GetTermIdsForPattern(index, pattern)
    IN  termIds /= <<>> /\ \A t \in 1..Len(termIds) : IsAllTerm(termIds[t])

\* C30: terms at level 'all' are unreachable. Whatever value setUserLevel was
\* given ('premed', 'medschool', 'all', null, an unknown string) and whatever
\* the flag, no match of findTerms carries a term whose metadata level is
\* 'all', and a pattern whose only terms are of level 'all' yields no match.
C30_AllTermsUnreachable ==
    Found =>
        \A k \in 1..Len(ret.value) :
            /\ \A t \in 1..Len(ret.value[k].termIds) : ~IsAllTerm(ret.value[k].termIds[t])
            /\ ~OnlyAllTerms(PatternOf(ret.value[k]))

\* a caller of level 'all' gets no match although a pattern whose only term is
\* of level 'all' stands in the text between word boundaries
C30_Witness ==
    /\ Found
    /\ userLevel = "all"
    /\ ret.value = <<>>
    /\ \E j \in 1..Len(RawMatches) :
          /\ OnlyAllTerms(RawMatches[j].pattern)
          /\ IsWordBoundaryMatch(text, RawMatches[j].start, RawMatches[j].end)
          /\ IsValidCaseMatch(index, text, RawMatches[j].start, RawMatches[j].end,
                              RawMatches[j].pattern)

====
